---- MODULE Spec2Model ----
(***************************************************************************)
(* Real-time voice conversation engine of the interview-training backend.  *)
(*                                                                         *)
(*   backend/ws_router.py            ConnectionManager, ConversationActor, *)
(*                                   the /ws/voice endpoint, force cleanup *)
(*   backend/core/realtime_speech.py RealTimeSpeechService (VAD segmenter) *)
(*                                                                         *)
(* Spec      one session: its transport, its ConversationActor with the    *)
(*           inbound and the outbound task, the endpoint's receive path,   *)
(*           the cleanup coroutines and the force-cleanup request.         *)
(* TurnSpec  the same actor over a longer stream of frames, restricted to  *)
(*           listening turns (no outbound loop step, no teardown).         *)
(* LifeSpec  the same actor over a short conversation with every teardown  *)
(*           path: transport close, the cleanup() coroutines, cancellation *)
(*           of the tasks and the force-cleanup request.                   *)
(* SegSpec   the voice-activity state machine of RealTimeSpeechService,    *)
(*           driven by RealTimeVoiceHandler.                               *)
(* ConnSpec  the ConnectionManager over several sessions and websockets.   *)
(* The other specifications are variants of these: other frame budgets,    *)
(* faults inside the loops, an empty planner reply, a long conversation,   *)
(* the passing of time, the forced cleanup.                                *)
(*                                                                         *)
(* Audio is kept byte-exact: a buffer is a sequence of pieces              *)
(* [id, lo, hi), the bytes lo..hi-1 of the chunk with that id, so lengths, *)
(* the 0.4 s window and the 20% overlap are computed on real byte counts.  *)
(* asyncio.Queue() is built without maxsize, so a put never suspends: a    *)
(* handler runs atomically between the awaits on collaborators, on         *)
(* queue.get and on gather.                                                *)
(***************************************************************************)
EXTENDS Integers, Sequences, FiniteSets, TLC

\* ------------------------------------------------------------------ bounds
MaxFrames == 2
MaxTurnFrames == 6
MaxLifeFrames == 2
MaxQueue == 2
MaxSynthChunks == 1
MaxSpeakFrames == 3
MaxSpeakChunks == 3
MaxSockets == 2
MaxFaultFrames == 5
MaxConnFrames == 2
MaxHistoryFrames == 7
MaxPings == 1
MaxBadJson == 1

MaxTime == 60
MaxConfigures == 2

\* ------------------------------------------------------- program constants
max_consecutive_errors == 5
\* RealTimeSpeechService.__init__, times in 0.1 s, threshold in 1/1000
DefaultVadThreshold == 5
DefaultSilenceTimeout == 20
DefaultMinSpeech == 5
DefaultMaxSpeech == 300
None == -1
\* asyncio.Queue() is built without maxsize: maxsize = 0, which asyncio reads
\* as "no limit" (Queue.full() is False whenever maxsize <= 0)
audio_queue_maxsize == 0
QueueFull(q) == audio_queue_maxsize > 0 /\ Len(q) >= audio_queue_maxsize
SampleRate == 16000
BytesPerSample == 2

\* audio_duration >= 0.4  <=>  len * 10 >= 4 * 16000 * 2
WindowReached(len) == len * 10 >= 4 * SampleRate * BytesPerSample

\* ---------------------------------------------------------- input domains
\* mean absolute amplitude of a chunk, in 1/1000 of full scale
Energies == {0, 5, 6}
\* time between two chunks, in 0.1 s
Deltas == {5, 21, 51}
\* raw arguments of a configure message, below and above the clamped ranges
ConfigInputs == [vad_threshold |-> {0, 2000}, silence_timeout |-> {0, 500},
                 min_speech_duration |-> {0, 500},
                 max_speech_duration |-> {0, 5000}]
SessionId == "s1"
\* the chunk frames a client sends: <<size in bytes, is_last>>
ChunkInputs == {<<6400, FALSE>>, <<12806, FALSE>>, <<6400, TRUE>>}
Texts == {"t1"}
Procs == {"audio", "rx"}
TaskIds == {"audio", "output"}
CleanupIds == {"disconnect", "force", "manager"}
\* the manager over several sessions: session ids, the ones the SessionStore
\* holds, websockets (one per endpoint invocation), actors (one per accepted
\* connect at most), the size of a binary frame
Sessions == {"s1", "s2"}
StoredSessions == {"s1"}
WsIds == 1..MaxSockets
ActorIds == 1..MaxSockets
NoId == 0
ConnChunk == 12806

VARIABLES
    \* ConnectionManager
    active_connections,     \* set of session ids with a registered transport
    conversation_actors,    \* set of session ids with a registered actor
    \* module-level registry _active_connections (weak references)
    registered,
    \* ConversationActor
    is_active, cleanup_completed,
    audio_queue, output_queue,
    current_transcript, conversation_history,
    is_speaking, is_listening,
    audio_buffer, consecutive_errors,
    tasks,                  \* tracked task set
    \* control state of the coroutines
    task_state,             \* audio / output task: running, cancelling, done
    pc,                     \* where the inbound task and the receive path are
    ctx,                    \* locals of the handler a coroutine is inside
    rx_open,                \* the endpoint's receive loop still runs
    cleanup_pc,             \* each cleanup() coroutine
    cleanup_wait,           \* the tasks a cleanup() is gathering
    force_pc,               \* the POST /ws/cleanup request
    \* transport and environment
    ws_frames,              \* frames written to the websocket
    frame_no, frame_limit,  \* client frames received so far, and their budget
    synth_limit,            \* most chunks a Synthesizer stream yields
    pings, bad_json,
    \* RealTimeSpeechService
    current_state, speech_start_time, last_speech_time,
    accumulated_audio,      \* number of chunks accumulated (none is empty)
    vad_threshold,          \* in 1/1000 of full scale
    silence_timeout, min_speech_duration, max_speech_duration,  \* in 0.1 s
    now,                    \* time.time(), in 0.1 s
    configures,             \* configure messages handled so far
    seg_path,               \* states entered by the last call, in order
    seg_last,               \* what the last process_audio_chunk call did
    seg_stt,                \* the Recognizer's answer during the last call
    seg_span,               \* last_speech_time - speech_start_time at the
                            \* finalize or discard that closed the last turn
    turn_calls,             \* Recognizer calls since the last speech start
    prev_speech,            \* the last chunk was classified as speech
    run_len,                \* first to last chunk of the latest contiguous
                            \* speech run, in 0.1 s
    run_calls,              \* Recognizer calls made for that run
    unfinalized,            \* a run of at least min_speech_duration was
                            \* followed by a new run without a finalize
    \* observation
    streak,                 \* Recognizer failures since its last success
    overlap,                \* a cleanup() started while another was suspended
    \* ConnectionManager and its actors over several sessions
    m_transport,            \* manager.active_connections: session -> websocket
    m_actor,                \* manager.conversation_actors: session -> actor
    m_stats,                \* manager._stats
    g_registry,             \* _active_connections: actors with a live weakref
    ep,                     \* endpoint invocation of each websocket
    ws_out,                 \* frames written to each websocket
    act,                    \* the fields of each ConversationActor
    cl,                     \* the cleanup() coroutines of each actor
    n_actors,               \* actors constructed so far
    f_pc, f_wait,           \* the POST /ws/cleanup request and what it gathers
    c_frames,               \* client frames received so far, all websockets
    last_raised             \* the last ConnectionManager call raised

actor_vars == <<is_active, cleanup_completed, audio_queue, output_queue,
                current_transcript, conversation_history, is_speaking,
                is_listening, audio_buffer, consecutive_errors, tasks>>
manager_vars == <<active_connections, conversation_actors, registered>>
control_vars == <<task_state, pc, ctx, rx_open, cleanup_pc, cleanup_wait,
                 force_pc>>
env_vars == <<ws_frames, frame_no, frame_limit, synth_limit, pings, bad_json>>
obs_vars == <<streak, overlap>>
session_vars == <<actor_vars, manager_vars, control_vars, env_vars, obs_vars>>
seg_vars == <<current_state, speech_start_time, last_speech_time,
              accumulated_audio, vad_threshold, silence_timeout,
              min_speech_duration, max_speech_duration, now, configures,
              seg_path, seg_last, seg_stt, seg_span, turn_calls, prev_speech,
              run_len, run_calls, unfinalized>>
conn_vars == <<m_transport, m_actor, m_stats, g_registry, ep, ws_out, act, cl,
               n_actors, f_pc, f_wait, c_frames, last_raised>>
vars == <<session_vars, seg_vars, conn_vars>>

\* ------------------------------------------------------------ audio bytes
RECURSIVE BufLen(_)
BufLen(buf) ==
    IF buf = <<>> THEN 0
    ELSE (buf[1].hi - buf[1].lo) + BufLen(Tail(buf))

RECURSIVE LastBytes(_, _)
LastBytes(buf, k) ==
    IF k = 0 \/ buf = <<>> THEN <<>>
    ELSE LET p == buf[Len(buf)]
             n == p.hi - p.lo
         IN IF n >= k
            THEN <<[p EXCEPT !.lo = p.hi - k]>>
            ELSE LastBytes(SubSeq(buf, 1, Len(buf) - 1), k - n) \o <<p>>

\* Python buf[-k:] : for k = 0 this is buf[0:], the whole buffer
NegSlice(buf, k) == IF k = 0 THEN buf ELSE LastBytes(buf, k)

\* a piece also records whether its chunk was enqueued while is_listening
\* (heard) and whether it was part of a buffer handed to the Recognizer (sent)
Extend(buf, chunk) ==
    IF chunk.size = 0 THEN buf
    ELSE Append(buf, [id |-> chunk.id, lo |-> 0, hi |-> chunk.size,
                      heard |-> chunk.heard, sent |-> FALSE])

MarkSent(buf) == [i \in 1..Len(buf) |-> [buf[i] EXCEPT !.sent = TRUE]]

\* ---------------------------------------------------------- output items
\* an item of output_queue: its type, the event of a text message with what
\* tells it apart (is_final of a transcript, the cause of an error), the
\* position in the stream of an audio chunk
Msg(event) == [type |-> "text_message", event |-> event, arg |-> "", seq |-> 0]
PartialMsg(final) == [type |-> "text_message", event |-> "partial_transcript",
                      arg |-> IF final THEN "final" ELSE "partial", seq |-> 0]
ErrorMsg(cause) == [type |-> "text_message", event |-> "error", arg |-> cause, seq |-> 0]
AudioItem(n) == [type |-> "audio_data", event |-> "audio", arg |-> "", seq |-> n]

\* ConversationActor._send_message / _send_binary: enqueue unless inactive
ActorSend(q, item) == IF is_active THEN Append(q, item) ELSE q

\* window is bytes(self.audio_buffer), the copy handed to the Recognizer
NoCtx == [is_last |-> FALSE, caller |-> "none", in_response |-> FALSE, yielded |-> 0,
          window |-> <<>>]

\* a ConversationActor as __init__ leaves it, and the slot of one not built
NewActor(s) ==
    [session |-> s, is_active |-> TRUE, cleanup_completed |-> FALSE,
     tasks |-> TaskIds, running |-> TaskIds, cancelled |-> FALSE,
     is_listening |-> FALSE, audio_queue |-> <<>>, audio_buffer |-> 0,
     output_queue |-> <<>>, consecutive_errors |-> 0, pc |-> "idle"]
NoActor ==
    [session |-> "none", is_active |-> FALSE, cleanup_completed |-> FALSE,
     tasks |-> {}, running |-> {}, cancelled |-> FALSE,
     is_listening |-> FALSE, audio_queue |-> <<>>, audio_buffer |-> 0,
     output_queue |-> <<>>, consecutive_errors |-> 0, pc |-> "idle"]

InitFor(limit, chunks) ==
    /\ active_connections = {SessionId}
    /\ conversation_actors = {SessionId}
    /\ registered = TRUE
    /\ is_active = TRUE
    /\ cleanup_completed = FALSE
    /\ audio_queue = <<>>
    /\ output_queue = <<>>
    /\ current_transcript = ""
    /\ conversation_history = <<>>
    /\ is_speaking = FALSE
    /\ is_listening = FALSE
    /\ audio_buffer = <<>>
    /\ consecutive_errors = 0
    /\ tasks = TaskIds
    /\ task_state = [t \in TaskIds |-> "running"]
    /\ pc = [p \in Procs |-> "idle"]
    /\ ctx = [p \in Procs |-> NoCtx]
    /\ rx_open = TRUE
    /\ cleanup_pc = [c \in CleanupIds |-> "none"]
    /\ cleanup_wait = [c \in CleanupIds |-> {}]
    /\ force_pc = "idle"
    /\ ws_frames = <<>>
    /\ frame_no = 0
    /\ frame_limit = limit
    /\ synth_limit = chunks
    /\ pings = 0
    /\ bad_json = 0
    /\ streak = 0
    /\ overlap = FALSE
    /\ current_state = "silence"
    /\ speech_start_time = None
    /\ last_speech_time = None
    /\ accumulated_audio = 0
    /\ vad_threshold = DefaultVadThreshold
    /\ silence_timeout = DefaultSilenceTimeout
    /\ min_speech_duration = DefaultMinSpeech
    /\ max_speech_duration = DefaultMaxSpeech
    /\ now = 0
    /\ configures = 0
    /\ seg_path = <<>>
    /\ seg_last = "none"
    /\ seg_span = 0
    /\ seg_stt = "none"
    /\ turn_calls = 0
    /\ prev_speech = FALSE
    /\ run_len = None
    /\ run_calls = 0
    /\ unfinalized = FALSE
    /\ m_transport = [s \in Sessions |-> NoId]
    /\ m_actor = [s \in Sessions |-> NoId]
    /\ m_stats = [total_connections |-> 0, active_connections |-> 0,
                  disconnected_connections |-> 0, failed_connections |-> 0]
    /\ g_registry = {}
    /\ ep = [w \in WsIds |-> [session |-> "none", pc |-> "none"]]
    /\ ws_out = [w \in WsIds |-> <<>>]
    /\ act = [a \in ActorIds |-> NoActor]
    /\ cl = [a \in ActorIds |-> [c \in CleanupIds |-> "none"]]
    /\ n_actors = 0
    /\ f_pc = "idle"
    /\ f_wait = {}
    /\ c_frames = 0
    /\ last_raised = FALSE

InitWith(limit) == InitFor(limit, MaxSynthChunks)

Init == InitWith(MaxFrames)
TurnInit == InitWith(MaxTurnFrames)
LifeInit == InitWith(MaxLifeFrames)
SegInit == InitWith(0)
SpeakInit == InitFor(MaxSpeakFrames, MaxSpeakChunks)
FaultInit == InitWith(MaxFaultFrames)
HistoryInit == InitWith(MaxHistoryFrames)

\* ------------------------------------------------------ ConnectionManager
\* ConnectionManager.disconnect: drop the transport, schedule actor.cleanup()
\* as a task and drop the actor
ManagerDisconnectOnlyMaps ==
    /\ active_connections' = active_connections \ {SessionId}
    /\ conversation_actors' = conversation_actors \ {SessionId}
    /\ cleanup_pc' = cleanup_pc
ManagerDisconnect ==
    /\ active_connections' = active_connections \ {SessionId}
    /\ conversation_actors' = conversation_actors \ {SessionId}
    /\ cleanup_pc' = IF SessionId \in conversation_actors
                     THEN [cleanup_pc EXCEPT !["disconnect"] = "scheduled"]
                     ELSE cleanup_pc

\* ConnectionManager.send_message / send_binary: write to the registered
\* transport; a failed write disconnects the session
ManagerSend(item, ok) ==
    IF SessionId \in active_connections
    THEN IF ok
         THEN /\ ws_frames' = Append(ws_frames, item)
              /\ UNCHANGED <<active_connections, conversation_actors, cleanup_pc>>
         ELSE /\ ws_frames' = ws_frames
              /\ ManagerDisconnect
    ELSE UNCHANGED <<ws_frames, active_connections, conversation_actors, cleanup_pc>>

\* -------------------------------------------- ConversationActor, handlers
\* _process_audio_chunk up to the Recognizer call
ChunkPhase1(chunk, is_last, buf, listening) ==
    IF chunk.size = 0
    THEN [disp |-> "invalid", buf |-> buf]
    ELSE LET b == Extend(buf, chunk)
         IN IF ~listening THEN [disp |-> "ignored", buf |-> b]
            ELSE IF WindowReached(BufLen(b)) \/ is_last
                 THEN [disp |-> "recognize", buf |-> b]
                 ELSE [disp |-> "buffered", buf |-> b]

\* what the caller of _process_audio_chunk / _generate_speech does when the
\* call returns: _stop_listening emits listening_stopped, _start_speaking
\* lowers is_speaking, the inbound loop goes back to audio_queue.get()
ReturnQueue(p, q) ==
    IF ctx[p].caller = "stop" THEN ActorSend(q, Msg("listening_stopped")) ELSE q
ReturnSpeaking(p) ==
    IF ctx[p].caller = "speak" THEN FALSE ELSE is_speaking

AudioRuns == task_state["audio"] = "running"
ProcRuns(p) == IF p = "audio" THEN AudioRuns ELSE TRUE

\* the endpoint finds the actor (manager.get_actor) and the actor is active
\* (the first test of process_audio_chunk and of process_message)
ActorAcceptsAlways == TRUE
ActorAccepts == SessionId \in conversation_actors /\ is_active

\* ConversationActor.process_audio_chunk, called by the endpoint for a binary
\* frame (is_last = FALSE) or by any holder of the actor
ProcessAudioChunk(size, is_last) ==
    /\ rx_open /\ pc["rx"] = "idle" /\ frame_no < frame_limit
    /\ Len(audio_queue) < MaxQueue
    /\ frame_no' = frame_no + 1
    /\ audio_queue' = IF ActorAccepts /\ ~QueueFull(audio_queue)
                      THEN Append(audio_queue,
                               [id |-> frame_no + 1, size |-> size,
                                is_last |-> is_last, heard |-> is_listening])
                      ELSE audio_queue
    /\ UNCHANGED <<manager_vars, control_vars, is_active, cleanup_completed,
                   output_queue, current_transcript, conversation_history,
                   is_speaking, is_listening, audio_buffer, consecutive_errors,
                   tasks, ws_frames, frame_limit, synth_limit, pings, bad_json, obs_vars>>
    /\ UNCHANGED <<seg_vars, conn_vars>>

\* process_message{"event": "start_listening"} -> _start_listening
StartListening ==
    /\ rx_open /\ pc["rx"] = "idle" /\ frame_no < frame_limit
    /\ frame_no' = frame_no + 1
    /\ IF SessionId \in conversation_actors /\ is_active
       THEN /\ is_listening' = TRUE
            /\ audio_buffer' = <<>>
            /\ output_queue' = ActorSend(output_queue, Msg("listening_started"))
       ELSE UNCHANGED <<is_listening, audio_buffer, output_queue>>
    /\ UNCHANGED <<manager_vars, control_vars, is_active, cleanup_completed,
                   audio_queue, current_transcript, conversation_history,
                   is_speaking, consecutive_errors, tasks, ws_frames,
                   frame_limit, synth_limit, pings, bad_json, obs_vars>>
    /\ UNCHANGED <<seg_vars, conn_vars>>

\* process_message{"event": "stop_listening"} -> _stop_listening, which hands
\* the remaining audio to _process_audio_chunk as {data: bytes(), is_last: True}
StopListening ==
    /\ rx_open /\ pc["rx"] = "idle" /\ frame_no < frame_limit
    /\ frame_no' = frame_no + 1
    /\ IF SessionId \in conversation_actors /\ is_active
       THEN LET r == IF audio_buffer # <<>>
                     THEN ChunkPhase1([id |-> 0, size |-> 0, is_last |-> TRUE,
                                       heard |-> FALSE],
                                      TRUE, audio_buffer, FALSE)
                     ELSE [disp |-> "none", buf |-> audio_buffer]
            IN /\ is_listening' = FALSE
               /\ IF r.disp = "recognize"
                  THEN /\ audio_buffer' = MarkSent(r.buf)
                       /\ pc' = [pc EXCEPT !["rx"] = "stt"]
                       /\ ctx' = [ctx EXCEPT !["rx"] =
                                    [NoCtx EXCEPT !.is_last = TRUE, !.caller = "stop",
                                                  !.window = MarkSent(r.buf)]]
                       /\ UNCHANGED output_queue
                  ELSE /\ audio_buffer' = r.buf
                       /\ output_queue' = ActorSend(output_queue, Msg("listening_stopped"))
                       /\ UNCHANGED <<pc, ctx>>
       ELSE UNCHANGED <<is_listening, audio_buffer, output_queue, pc, ctx>>
    /\ UNCHANGED <<manager_vars, task_state, rx_open, cleanup_pc, cleanup_wait,
                   force_pc, is_active, cleanup_completed, audio_queue,
                   current_transcript, conversation_history, is_speaking,
                   consecutive_errors, tasks, ws_frames, frame_limit, synth_limit, pings,
                   bad_json, obs_vars>>
    /\ UNCHANGED <<seg_vars, conn_vars>>

\* process_message{"event": "start_speaking"} -> _start_speaking ->
\* _generate_speech up to the first await on the Synthesizer stream
StartSpeaking ==
    /\ rx_open /\ pc["rx"] = "idle" /\ frame_no < frame_limit
    /\ frame_no' = frame_no + 1
    /\ IF SessionId \in conversation_actors /\ is_active
       THEN /\ is_speaking' = TRUE
            /\ output_queue' = ActorSend(output_queue, Msg("speech_start"))
            /\ pc' = [pc EXCEPT !["rx"] = "synth"]
            /\ ctx' = [ctx EXCEPT !["rx"] = [NoCtx EXCEPT !.caller = "speak"]]
       ELSE UNCHANGED <<is_speaking, output_queue, pc, ctx>>
    /\ UNCHANGED <<manager_vars, task_state, rx_open, cleanup_pc, cleanup_wait,
                   force_pc, is_active, cleanup_completed, audio_queue,
                   current_transcript, conversation_history, is_listening,
                   audio_buffer, consecutive_errors, tasks, ws_frames,
                   frame_limit, synth_limit, pings, bad_json, obs_vars>>
    /\ UNCHANGED <<seg_vars, conn_vars>>

\* process_message with "ping" (answers pong) or an unknown event (ignored)
OtherMessage(event) ==
    /\ rx_open /\ pc["rx"] = "idle" /\ frame_no < frame_limit
    /\ frame_no' = frame_no + 1
    /\ output_queue' = IF SessionId \in conversation_actors /\ is_active /\ event = "ping"
                       THEN ActorSend(output_queue, Msg("pong"))
                       ELSE output_queue
    /\ UNCHANGED <<manager_vars, control_vars, is_active, cleanup_completed,
                   audio_queue, current_transcript, conversation_history,
                   is_speaking, is_listening, audio_buffer, consecutive_errors,
                   tasks, ws_frames, frame_limit, synth_limit, pings, bad_json, obs_vars>>
    /\ UNCHANGED <<seg_vars, conn_vars>>

\* a text frame that is not JSON: the endpoint answers through
\* manager.send_message directly
ReceiveBadJson(ok) ==
    /\ rx_open /\ pc["rx"] = "idle" /\ bad_json < MaxBadJson
    /\ bad_json' = bad_json + 1
    /\ ManagerSend(ErrorMsg("json"), ok)
    /\ UNCHANGED <<registered, actor_vars, task_state, pc, ctx, rx_open,
                   cleanup_wait, force_pc, frame_no, frame_limit, synth_limit, pings,
                   obs_vars>>
    /\ UNCHANGED <<seg_vars, conn_vars>>

\* websocket.receive() raises (client gone): the loop breaks and the finally
\* clause calls manager.disconnect
TransportClosed ==
    /\ rx_open /\ pc["rx"] = "idle"
    /\ rx_open' = FALSE
    /\ ManagerDisconnect
    /\ UNCHANGED <<registered, actor_vars, task_state, pc, ctx, cleanup_wait,
                   force_pc, env_vars, obs_vars>>
    /\ UNCHANGED <<seg_vars, conn_vars>>

\* ---------------------------------------------- ConversationActor, loops
\* _audio_processor: one audio_queue.get() and _process_audio_chunk up to the
\* Recognizer call
AudioProcessorStep ==
    /\ AudioRuns /\ pc["audio"] = "idle" /\ is_active
    /\ audio_queue # <<>>
    /\ LET item == Head(audio_queue)
           r == ChunkPhase1(item, item.is_last, audio_buffer, is_listening)
       IN /\ audio_queue' = Tail(audio_queue)
          /\ IF r.disp = "recognize"
             THEN /\ audio_buffer' = MarkSent(r.buf)
                  /\ pc' = [pc EXCEPT !["audio"] = "stt"]
                  /\ ctx' = [ctx EXCEPT !["audio"] =
                               [NoCtx EXCEPT !.is_last = item.is_last, !.caller = "loop",
                                             !.window = MarkSent(r.buf)]]
             ELSE /\ audio_buffer' = r.buf
                  /\ UNCHANGED <<pc, ctx>>
    /\ UNCHANGED <<manager_vars, task_state, rx_open, cleanup_pc, cleanup_wait,
                   force_pc, is_active, cleanup_completed, output_queue,
                   current_transcript, conversation_history, is_speaking,
                   is_listening, consecutive_errors, tasks, env_vars, obs_vars>>
    /\ UNCHANGED <<seg_vars, conn_vars>>

\* _audio_processor: audio_queue.get() timed out after 30 s, keepalive ping
AudioIdleTimeout ==
    /\ AudioRuns /\ pc["audio"] = "idle" /\ is_active
    /\ audio_queue = <<>>
    /\ pings < MaxPings
    /\ pings' = pings + 1
    /\ output_queue' = ActorSend(output_queue, Msg("ping"))
    /\ UNCHANGED <<manager_vars, control_vars, is_active, cleanup_completed,
                   audio_queue, current_transcript, conversation_history,
                   is_speaking, is_listening, audio_buffer, consecutive_errors,
                   tasks, ws_frames, frame_no, frame_limit, synth_limit, bad_json, obs_vars>>
    /\ UNCHANGED <<seg_vars, conn_vars>>

\* the circuit breaker of _process_audio_chunk's except branch: n is
\* consecutive_errors after its increment
BreakerTripsLate(n) == n > max_consecutive_errors
BreakerTrips(n) == n >= max_consecutive_errors

\* the buffer after a failed Recognizer call: cleared when the breaker trips,
\* kept for the next attempt otherwise
BufferDroppedOnFailure(buf, trips) == <<>>
BufferAfterFailure(buf, trips) == IF trips THEN <<>> ELSE buf

\* where the coroutine is after the except branch: back in its caller (the
\* exception is handled inside _process_audio_chunk, the loop goes on)
ResumeOrBreak(trips) == IF trips THEN "done" ELSE "idle"
ResumeAfterFailure(trips) == "idle"

\* _process_audio_chunk after speech_service.speech_to_text: the result with
\* a text, or an exception
RecognizerReturns(p, outcome) ==
    /\ pc[p] = "stt" /\ ProcRuns(p)
    /\ IF outcome # "fail"
       THEN LET q1 == ActorSend(output_queue, PartialMsg(ctx[p].is_last))
            IN /\ consecutive_errors' = 0
               /\ streak' = 0
               /\ IF ctx[p].is_last
                  THEN \* _generate_ai_response up to storage.get_session / ask_llm
                       /\ conversation_history' = Append(conversation_history,
                              [role |-> "user", content |-> outcome])
                       /\ output_queue' = ActorSend(q1, Msg("final_transcript"))
                       /\ pc' = [pc EXCEPT ![p] = "plan"]
                       /\ ctx' = ctx
                       /\ UNCHANGED <<audio_buffer, current_transcript>>
                  ELSE /\ audio_buffer' = NegSlice(audio_buffer, BufLen(audio_buffer) \div 5)
                       /\ current_transcript' = outcome
                       /\ output_queue' = ReturnQueue(p, q1)
                       /\ pc' = [pc EXCEPT ![p] = "idle"]
                       /\ ctx' = [ctx EXCEPT ![p] = NoCtx]
                       /\ UNCHANGED conversation_history
       ELSE LET trips == BreakerTrips(consecutive_errors + 1)
            IN /\ audio_buffer' = BufferAfterFailure(audio_buffer, trips)
               /\ consecutive_errors' = IF trips THEN 0 ELSE consecutive_errors + 1
               /\ output_queue' = ReturnQueue(p, ActorSend(output_queue,
                      IF trips THEN ErrorMsg("stt_breaker") ELSE ErrorMsg("stt")))
               /\ pc' = [pc EXCEPT ![p] = ResumeAfterFailure(trips)]
            /\ streak' = streak + 1
            /\ ctx' = [ctx EXCEPT ![p] = NoCtx]
            /\ UNCHANGED <<conversation_history, current_transcript>>
    /\ UNCHANGED <<manager_vars, task_state, rx_open, cleanup_pc, cleanup_wait,
                   force_pc, is_active, cleanup_completed, audio_queue,
                   is_speaking, is_listening, tasks, env_vars, overlap>>
    /\ UNCHANGED <<seg_vars, conn_vars>>

\* conversation_history[-10:], the part of the history _generate_ai_response
\* hands to chat_service.ask_llm after the system message
HistoryWindow == 10
LastEntries(h, n) == IF Len(h) <= n THEN h ELSE SubSeq(h, Len(h) - n + 1, Len(h))
PlannerMessages == LastEntries(conversation_history, HistoryWindow)

\* the text chat_service.ask_llm returned: the empty string for an empty
\* reply, and the assistant_text event that carries it
ReplyText(outcome) == IF outcome = "empty" THEN "" ELSE outcome
AssistantText(outcome) == [Msg("assistant_text") EXCEPT !.arg = ReplyText(outcome)]

\* _generate_ai_response after storage.get_session and chat_service.ask_llm:
\* the session is missing, the planner raises, or it returns a reply, which
\* is handled the same way whether it is empty or not
PlannerReturns(p, outcome) ==
    /\ pc[p] = "plan" /\ ProcRuns(p)
    /\ IF outcome \in {"no_session", "llm_error"}
       THEN \* except branch, then back in _process_audio_chunk: clear
            /\ output_queue' = ReturnQueue(p, ActorSend(output_queue, ErrorMsg("llm")))
            /\ audio_buffer' = <<>>
            /\ current_transcript' = ""
            /\ pc' = [pc EXCEPT ![p] = "idle"]
            /\ ctx' = [ctx EXCEPT ![p] = NoCtx]
            /\ UNCHANGED conversation_history
       ELSE \* reply, then _generate_speech up to the Synthesizer stream
            /\ output_queue' = ActorSend(ActorSend(output_queue, AssistantText(outcome)),
                                         Msg("speech_start"))
            /\ conversation_history' = Append(conversation_history,
                   [role |-> "assistant", content |-> outcome])
            /\ pc' = [pc EXCEPT ![p] = "synth"]
            /\ ctx' = [ctx EXCEPT ![p].in_response = TRUE, ![p].yielded = 0]
            /\ UNCHANGED <<audio_buffer, current_transcript>>
    /\ UNCHANGED <<manager_vars, task_state, rx_open, cleanup_pc, cleanup_wait,
                   force_pc, is_active, cleanup_completed, audio_queue,
                   is_speaking, is_listening, consecutive_errors, tasks,
                   env_vars, obs_vars>>
    /\ UNCHANGED <<seg_vars, conn_vars>>

\* _generate_speech relays a chunk of the stream with self._send_binary
RelayChunkFirst(q, item) == IF is_active THEN <<item>> \o q ELSE q
RelayChunk(q, item) == ActorSend(q, item)

\* _generate_speech: the Synthesizer stream yields a chunk, ends, or raises
SynthesizerStep(p, outcome) ==
    /\ pc[p] = "synth" /\ ProcRuns(p)
    /\ outcome = "chunk" => ctx[p].yielded < synth_limit
    /\ IF outcome = "chunk" /\ is_active
       THEN /\ output_queue' = RelayChunk(output_queue, AudioItem(ctx[p].yielded + 1))
            /\ ctx' = [ctx EXCEPT ![p].yielded = @ + 1]
            /\ UNCHANGED <<pc, audio_buffer, current_transcript, is_speaking>>
       ELSE /\ output_queue' =
                   ReturnQueue(p, ActorSend(output_queue,
                       IF outcome = "raise" THEN ErrorMsg("tts") ELSE Msg("speech_end")))
            /\ IF ctx[p].in_response
               THEN audio_buffer' = <<>> /\ current_transcript' = ""
               ELSE UNCHANGED <<audio_buffer, current_transcript>>
            /\ is_speaking' = ReturnSpeaking(p)
            /\ pc' = [pc EXCEPT ![p] = "idle"]
            /\ ctx' = [ctx EXCEPT ![p] = NoCtx]
    /\ UNCHANGED <<manager_vars, task_state, rx_open, cleanup_pc, cleanup_wait,
                   force_pc, is_active, cleanup_completed, audio_queue,
                   conversation_history, is_listening, consecutive_errors,
                   tasks, env_vars, obs_vars>>
    /\ UNCHANGED <<seg_vars, conn_vars>>

\* _output_processor: one output_queue.get(); a text item goes to
\* self._send_message, an audio item to self._send_binary
OutputProcessorStep ==
    /\ task_state["output"] = "running" /\ is_active
    /\ output_queue # <<>>
    /\ output_queue' = ActorSend(Tail(output_queue), Head(output_queue))
    /\ UNCHANGED <<manager_vars, control_vars, is_active, cleanup_completed,
                   audio_queue, current_transcript, conversation_history,
                   is_speaking, is_listening, audio_buffer, consecutive_errors,
                   tasks, env_vars, obs_vars>>
    /\ UNCHANGED <<seg_vars, conn_vars>>

\* a task whose cancellation was requested receives CancelledError at its
\* await; _task_done_callback discards it from the tracked set
TaskCancelled(t) ==
    /\ task_state[t] = "cancelling"
    /\ task_state' = [task_state EXCEPT ![t] = "done"]
    /\ tasks' = tasks \ {t}
    /\ IF t = "audio"
       THEN /\ pc' = [pc EXCEPT !["audio"] = "done"]
            /\ ctx' = [ctx EXCEPT !["audio"] = NoCtx]
       ELSE UNCHANGED <<pc, ctx>>
    /\ UNCHANGED <<manager_vars, rx_open, cleanup_pc, cleanup_wait, force_pc,
                   is_active, cleanup_completed, audio_queue, output_queue,
                   current_transcript, conversation_history, is_speaking,
                   is_listening, audio_buffer, consecutive_errors, env_vars,
                   obs_vars>>
    /\ UNCHANGED <<seg_vars, conn_vars>>

\* `if self.consecutive_errors >= self.max_consecutive_errors: break` in the
\* except clause of the inbound loop; n is the counter after its increment
InboundLoopBreaksAlways(n) == TRUE
InboundLoopBreaks(n) == n >= max_consecutive_errors

\* _audio_processor: the handling of an item taken from audio_queue raises
\* before the buffer is touched; the loop's own except clause counts the
\* error and goes on, or breaks at max_consecutive_errors, after which the
\* task ends normally and its done callback untracks it
AudioLoopRaises ==
    /\ AudioRuns /\ pc["audio"] = "idle" /\ is_active
    /\ audio_queue # <<>>
    /\ audio_queue' = Tail(audio_queue)
    /\ consecutive_errors' = consecutive_errors + 1
    /\ IF InboundLoopBreaks(consecutive_errors + 1)
       THEN /\ task_state' = [task_state EXCEPT !["audio"] = "done"]
            /\ tasks' = tasks \ {"audio"}
            /\ pc' = [pc EXCEPT !["audio"] = "done"]
       ELSE UNCHANGED <<task_state, tasks, pc>>
    /\ UNCHANGED <<manager_vars, ctx, rx_open, cleanup_pc, cleanup_wait, force_pc,
                   is_active, cleanup_completed, output_queue,
                   current_transcript, conversation_history, is_speaking,
                   is_listening, audio_buffer, env_vars, obs_vars>>
    /\ UNCHANGED <<seg_vars, conn_vars>>

\* _output_processor: the handling of an item taken from output_queue
\* raises; the except clause breaks, the task ends normally and its done
\* callback untracks it
OutputLoopRaises ==
    /\ task_state["output"] = "running" /\ is_active
    /\ output_queue # <<>>
    /\ output_queue' = Tail(output_queue)
    /\ task_state' = [task_state EXCEPT !["output"] = "done"]
    /\ tasks' = tasks \ {"output"}
    /\ UNCHANGED <<manager_vars, pc, ctx, rx_open, cleanup_pc, cleanup_wait,
                   force_pc, is_active, cleanup_completed, audio_queue,
                   current_transcript, conversation_history, is_speaking,
                   is_listening, audio_buffer, consecutive_errors, env_vars,
                   obs_vars>>
    /\ UNCHANGED <<seg_vars, conn_vars>>

\* ------------------------------------------------------------- cleanup()
\* cleanup() from self.tasks.clear() to the end
CleanupTailKeepsHistory(c) ==
    /\ tasks' = {}
    /\ audio_queue' = <<>>
    /\ output_queue' = <<>>
    /\ audio_buffer' = <<>>
    /\ conversation_history' = conversation_history
    /\ registered' = FALSE
    /\ cleanup_completed' = TRUE
    /\ cleanup_pc' = [cleanup_pc EXCEPT ![c] = "done"]
    /\ cleanup_wait' = [cleanup_wait EXCEPT ![c] = {}]
CleanupTail(c) ==
    /\ tasks' = {}
    /\ audio_queue' = <<>>
    /\ output_queue' = <<>>
    /\ audio_buffer' = <<>>
    /\ conversation_history' = <<>>
    /\ registered' = FALSE
    /\ cleanup_completed' = TRUE
    /\ cleanup_pc' = [cleanup_pc EXCEPT ![c] = "done"]
    /\ cleanup_wait' = [cleanup_wait EXCEPT ![c] = {}]

\* the guard at the top of cleanup()
CleanupStartedBefore == cleanup_completed \/ ~is_active
CleanupReturnsAtOnce == cleanup_completed

\* cleanup() up to its await on gather(*self.tasks), or to the end when no
\* task is tracked
CleanupStart(c) ==
    /\ cleanup_pc[c] = "scheduled"
    /\ overlap' = (overlap \/ \E d \in CleanupIds : cleanup_pc[d] = "gather")
    /\ IF CleanupReturnsAtOnce
       THEN /\ cleanup_pc' = [cleanup_pc EXCEPT ![c] = "done"]
            /\ UNCHANGED <<is_active, task_state, cleanup_wait, tasks, audio_queue,
                           output_queue, audio_buffer, conversation_history,
                           registered, cleanup_completed>>
       ELSE /\ is_active' = FALSE
            /\ IF tasks # {}
               THEN /\ task_state' = [t \in TaskIds |->
                          IF t \in tasks /\ task_state[t] # "done"
                          THEN "cancelling" ELSE task_state[t]]
                    /\ cleanup_pc' = [cleanup_pc EXCEPT ![c] = "gather"]
                    /\ cleanup_wait' = [cleanup_wait EXCEPT ![c] = tasks]
                    /\ UNCHANGED <<tasks, audio_queue, output_queue, audio_buffer,
                                   conversation_history, registered, cleanup_completed>>
               ELSE /\ CleanupTail(c)
                    /\ UNCHANGED task_state
    /\ UNCHANGED <<active_connections, conversation_actors, pc, ctx, rx_open,
                   force_pc, current_transcript, is_speaking, is_listening,
                   consecutive_errors, env_vars, streak>>
    /\ UNCHANGED <<seg_vars, conn_vars>>

\* wait_for(gather(*self.tasks, return_exceptions=True), 5.0) is over: the
\* gather finishes when the last gathered task has ended; at the timeout
\* wait_for cancels the gather, which cancels the tasks once more, and awaits
\* it before raising TimeoutError, so the wait ends with the last task too
GatherOver(waited, timeout) == \A t \in waited : task_state[t] = "done"

\* cleanup() resumes from wait_for(gather(...), 5.0), by the gather's result
\* or by TimeoutError, and runs to its end
CleanupResume(c, timeout) ==
    /\ cleanup_pc[c] = "gather"
    /\ GatherOver(cleanup_wait[c], timeout)
    /\ CleanupTail(c)
    /\ UNCHANGED <<active_connections, conversation_actors, task_state, pc, ctx,
                   rx_open, force_pc, is_active, current_transcript, is_speaking,
                   is_listening, consecutive_errors, env_vars, obs_vars>>
    /\ UNCHANGED <<seg_vars, conn_vars>>

\* ------------------------------------------------- POST /ws/cleanup request
\* manager.cleanup_all up to its gather, or to the end without actors
ManagerCleanupAll ==
    IF SessionId \in conversation_actors
    THEN /\ cleanup_pc' = [cleanup_pc EXCEPT !["manager"] = "scheduled"]
         /\ force_pc' = "gather2"
         /\ UNCHANGED <<active_connections, conversation_actors>>
    ELSE /\ active_connections' = {}
         /\ conversation_actors' = {}
         /\ force_pc' = "done"
         /\ UNCHANGED cleanup_pc

\* cleanup_all_connections: a force_cleanup task per live registered actor
ForceCleanupStart ==
    /\ force_pc = "idle"
    /\ IF registered
       THEN /\ cleanup_pc' = [cleanup_pc EXCEPT !["force"] = "scheduled"]
            /\ force_pc' = "gather1"
            /\ UNCHANGED <<active_connections, conversation_actors, registered>>
       ELSE /\ registered' = FALSE
            /\ ManagerCleanupAll
    /\ UNCHANGED <<actor_vars, task_state, pc, ctx, rx_open, cleanup_wait,
                   env_vars, obs_vars>>
    /\ UNCHANGED <<seg_vars, conn_vars>>

\* cleanup_all_connections after its gather: clear the registry, then
\* manager.cleanup_all
ForceCleanupRegistryCleared ==
    /\ force_pc = "gather1"
    /\ cleanup_pc["force"] = "done"
    /\ registered' = FALSE
    /\ ManagerCleanupAll
    /\ UNCHANGED <<actor_vars, task_state, pc, ctx, rx_open, cleanup_wait,
                   env_vars, obs_vars>>
    /\ UNCHANGED <<seg_vars, conn_vars>>

\* manager.cleanup_all after its gather: clear both maps
ForceCleanupDone ==
    /\ force_pc = "gather2"
    /\ cleanup_pc["manager"] = "done"
    /\ active_connections' = {}
    /\ conversation_actors' = {}
    /\ force_pc' = "done"
    /\ UNCHANGED <<registered, actor_vars, task_state, pc, ctx, rx_open,
                   cleanup_pc, cleanup_wait, env_vars, obs_vars>>
    /\ UNCHANGED <<seg_vars, conn_vars>>

\* ---------------------------------------------------------- specification
Next ==
    \/ \E c \in ChunkInputs : ProcessAudioChunk(c[1], c[2])
    \/ StartListening
    \/ StopListening
    \/ StartSpeaking
    \/ \E event \in {"ping", "unknown"} : OtherMessage(event)
    \/ \E ok \in BOOLEAN : ReceiveBadJson(ok)
    \/ TransportClosed
    \/ AudioProcessorStep
    \/ AudioIdleTimeout
    \/ \E p \in Procs, outcome \in Texts \cup {"fail"} : RecognizerReturns(p, outcome)
    \/ \E p \in Procs, outcome \in {"no_session", "llm_error", "reply"} :
           PlannerReturns(p, outcome)
    \/ \E p \in Procs, outcome \in {"chunk", "end", "raise"} : SynthesizerStep(p, outcome)
    \/ OutputProcessorStep
    \/ \E t \in TaskIds : TaskCancelled(t)
    \/ \E c \in CleanupIds : CleanupStart(c)
    \/ \E c \in CleanupIds, timeout \in BOOLEAN : CleanupResume(c, timeout)
    \/ ForceCleanupStart
    \/ ForceCleanupRegistryCleared
    \/ ForceCleanupDone

Spec == Init /\ [][Next]_vars

\* listening turns only: control frames and chunks, the inbound loop and the
\* collaborators
TurnNext ==
    \/ \E c \in ChunkInputs : ProcessAudioChunk(c[1], c[2])
    \/ StartListening
    \/ StopListening
    \/ AudioProcessorStep
    \/ \E p \in Procs, outcome \in Texts \cup {"fail"} : RecognizerReturns(p, outcome)
    \/ \E p \in Procs, outcome \in {"no_session", "llm_error", "reply"} :
           PlannerReturns(p, outcome)
    \/ \E p \in Procs, outcome \in {"chunk", "end", "raise"} : SynthesizerStep(p, outcome)

TurnSpec == TurnInit /\ [][TurnNext]_vars

\* the same turns over fewer frames, with Synthesizer streams of several chunks
SpeakSpec == SpeakInit /\ [][TurnNext]_vars

\* the same turns with a planner that may also return an empty reply
DialogNext ==
    \/ \E c \in ChunkInputs : ProcessAudioChunk(c[1], c[2])
    \/ StartListening
    \/ StopListening
    \/ AudioProcessorStep
    \/ \E p \in Procs, outcome \in Texts \cup {"fail"} : RecognizerReturns(p, outcome)
    \/ \E p \in Procs, outcome \in {"no_session", "llm_error", "reply", "empty"} :
           PlannerReturns(p, outcome)
    \/ \E p \in Procs, outcome \in {"chunk", "end", "raise"} : SynthesizerStep(p, outcome)

DialogSpec == SpeakInit /\ [][DialogNext]_vars

\* a long conversation: the client starts listening and sends one utterance
\* after the other, each as a single final chunk
HistoryNext ==
    \/ StartListening
    \/ ProcessAudioChunk(6400, TRUE)
    \/ AudioProcessorStep
    \/ \E p \in Procs, outcome \in Texts \cup {"fail"} : RecognizerReturns(p, outcome)
    \/ \E p \in Procs, outcome \in {"llm_error", "reply"} : PlannerReturns(p, outcome)
    \/ \E p \in Procs, outcome \in {"end", "raise"} : SynthesizerStep(p, outcome)

HistorySpec == HistoryInit /\ [][HistoryNext]_vars

\* listening turns in which the handling of an item may raise inside either
\* loop
FaultNext ==
    \/ TurnNext
    \/ AudioLoopRaises
    \/ OutputLoopRaises

FaultSpec == FaultInit /\ [][FaultNext]_vars

\* teardown: a short conversation, then disconnects and forced cleanup in
\* every interleaving (the outbound loop only waits to be cancelled)
LifeNext ==
    \/ \E c \in ChunkInputs : ProcessAudioChunk(c[1], c[2])
    \/ StartListening
    \/ StartSpeaking
    \/ TransportClosed
    \/ AudioProcessorStep
    \/ \E p \in Procs, outcome \in Texts \cup {"fail"} : RecognizerReturns(p, outcome)
    \/ \E p \in Procs, outcome \in {"no_session", "llm_error", "reply"} :
           PlannerReturns(p, outcome)
    \/ \E p \in Procs, outcome \in {"chunk", "end", "raise"} : SynthesizerStep(p, outcome)
    \/ \E t \in TaskIds : TaskCancelled(t)
    \/ \E c \in CleanupIds : CleanupStart(c)
    \/ \E c \in CleanupIds, timeout \in BOOLEAN : CleanupResume(c, timeout)
    \/ ForceCleanupStart
    \/ ForceCleanupRegistryCleared
    \/ ForceCleanupDone

LifeSpec == LifeInit /\ [][LifeNext]_vars

\* the event loop runs every task it has scheduled: a cleanup() task created
\* by disconnect or by the cleanup request starts, wait_for(gather, 5.0)
\* returns once the gathered tasks have ended, a cancelled task gets its
\* CancelledError, and the cleanup request goes on after its gathers
LifeFairness ==
    /\ \A c \in CleanupIds : WF_vars(CleanupStart(c))
    /\ \A c \in CleanupIds : WF_vars(\E timeout \in BOOLEAN : CleanupResume(c, timeout))
    /\ \A t \in TaskIds : WF_vars(TaskCancelled(t))
    /\ WF_vars(ForceCleanupRegistryCleared)
    /\ WF_vars(ForceCleanupDone)

LifeFairSpec == LifeSpec /\ LifeFairness

\* --------------------------------------------------- RealTimeSpeechService
Max(a, b) == IF a >= b THEN a ELSE b
Min(a, b) == IF a <= b THEN a ELSE b

\* _detect_voice_activity: energy > self.vad_threshold
DetectVoiceActivity(energy) == energy > vad_threshold

\* process_audio_chunk: the branch of the state machine taken for a chunk
\* handled at time t
ChunkDecision(speech, t) ==
    IF current_state = "silence"
    THEN IF speech THEN "speech_start" ELSE "none"
    ELSE IF current_state = "speech"
    THEN IF speech
         THEN IF t - speech_start_time > max_speech_duration
              THEN "finalize" ELSE "extend"
         ELSE IF t - last_speech_time > silence_timeout
              THEN IF t - speech_start_time >= min_speech_duration
                   THEN "finalize" ELSE "discard"
              ELSE "wait"
    ELSE "none"

\* _finalize_speech calls the Recognizer unless nothing was accumulated
FinalizeSkipsRecognizer(acc) == FALSE
FinalizeCallsRecognizer(acc) == acc > 0

\* the state _finalize_speech leaves behind after the Recognizer call:
\* each of its three ways out goes through _reset_speech_state
FinalizeEndsUnlessRaised(stt) == IF stt = "raise" THEN "processing" ELSE "silence"
FinalizeEnds(stt) == "silence"

\* the states entered through _change_state during one call
\* (finalize: PROCESSING, then _reset_speech_state; a transcribed answer is
\* followed by synthesize_speech: SPEAKING, then SILENCE)
StatePath(decision, acc, stt, plan) ==
    IF decision = "speech_start" THEN <<"speech">>
    ELSE IF decision = "discard" THEN <<"silence">>
    ELSE IF decision = "finalize"
    THEN IF ~FinalizeCallsRecognizer(acc) THEN <<"silence">>
         ELSE <<"processing", FinalizeEnds(stt)>> \o
              (IF stt = "text" /\ plan \in {"question", "complete"}
               THEN <<"speaking", "silence">> ELSE <<>>)
    ELSE <<>>

\* RealTimeVoiceHandler._handle_audio_chunk -> process_audio_chunk, with the
\* Recognizer's and the planner's answers should they be called
SegProcessChunk(energy, dt, stt, plan) ==
    /\ now + dt <= MaxTime
    \* the collaborators' answers matter only when they are called
    /\ ChunkDecision(DetectVoiceActivity(energy), now + dt) # "finalize"
           => stt = "text" /\ plan = "question"
    /\ stt # "text" => plan = "question"
    /\ LET t == now + dt
           speech == DetectVoiceActivity(energy)
           decision == ChunkDecision(speech, t)
           acc == IF current_state = "speech" THEN accumulated_audio + 1
                  ELSE IF decision = "speech_start" THEN 1
                  ELSE accumulated_audio
           closing == decision \in {"finalize", "discard"}
           called == IF decision = "finalize" /\ FinalizeCallsRecognizer(acc)
                     THEN 1 ELSE 0
           path == StatePath(decision, acc, stt, plan)
       IN /\ now' = t
          /\ current_state' = IF path = <<>> THEN current_state ELSE path[Len(path)]
          /\ speech_start_time' = IF closing THEN None
                                  ELSE IF decision = "speech_start" THEN t
                                  ELSE speech_start_time
          /\ last_speech_time' = IF closing THEN None
                                 ELSE IF decision \in {"speech_start", "extend"} THEN t
                                 ELSE last_speech_time
          /\ accumulated_audio' = IF closing THEN 0 ELSE acc
          /\ seg_path' = path
          /\ seg_last' = decision
          /\ seg_stt' = IF called = 1 THEN stt ELSE "none"
          /\ seg_span' = IF closing
                         THEN (IF speech THEN t ELSE last_speech_time) - speech_start_time
                         ELSE 0
          /\ turn_calls' = IF decision = "speech_start" THEN 0 ELSE turn_calls + called
          /\ prev_speech' = speech
          /\ IF speech /\ ~prev_speech
             THEN /\ unfinalized' = (unfinalized \/
                        (/\ run_len # None
                         /\ run_len >= min_speech_duration
                         /\ run_calls = 0))
                  /\ run_len' = 0
                  /\ run_calls' = called
             ELSE /\ run_len' = IF speech THEN run_len + dt ELSE run_len
                  /\ run_calls' = run_calls + called
                  /\ UNCHANGED unfinalized
    /\ UNCHANGED <<vad_threshold, silence_timeout, min_speech_duration,
                   max_speech_duration, configures>>
    /\ UNCHANGED <<session_vars, conn_vars>>

\* configure: max(lo, min(hi, value))
ClampLow(lo, hi, value) == Max(lo, value)
Clamp(lo, hi, value) == Max(lo, Min(hi, value))

\* RealTimeVoiceHandler._handle_configure -> configure, one parameter given
\* (a message with several parameters acts as one message for each)
SegConfigure(param, value) ==
    /\ configures < MaxConfigures
    /\ configures' = configures + 1
    /\ vad_threshold' = IF param = "vad_threshold"
                        THEN Clamp(1, 1000, value) ELSE vad_threshold
    /\ silence_timeout' = IF param = "silence_timeout"
                          THEN Clamp(5, 100, value) ELSE silence_timeout
    /\ min_speech_duration' = IF param = "min_speech_duration"
                              THEN Clamp(1, 50, value) ELSE min_speech_duration
    /\ max_speech_duration' = IF param = "max_speech_duration"
                              THEN Clamp(50, 600, value) ELSE max_speech_duration
    /\ UNCHANGED <<current_state, speech_start_time, last_speech_time,
                   accumulated_audio, now, seg_path, seg_last, seg_stt, seg_span,
                   turn_calls, prev_speech, run_len, run_calls, unfinalized>>
    /\ UNCHANGED <<session_vars, conn_vars>>

\* RealTimeVoiceHandler._handle_interrupt -> _reset_speech_state
SegInterrupt ==
    /\ current_state # "silence"
    /\ current_state' = "silence"
    /\ speech_start_time' = None
    /\ last_speech_time' = None
    /\ accumulated_audio' = 0
    /\ seg_path' = <<"silence">>
    /\ seg_last' = "interrupt"
    /\ seg_span' = 0
    /\ seg_stt' = "none"
    /\ UNCHANGED <<vad_threshold, silence_timeout, min_speech_duration,
                   max_speech_duration, now, configures, turn_calls,
                   prev_speech, run_len, run_calls, unfinalized>>
    /\ UNCHANGED <<session_vars, conn_vars>>

SegNext ==
    \/ \E energy \in Energies, dt \in Deltas, stt \in {"text", "empty", "raise"},
          plan \in {"question", "complete", "no_session"} :
           SegProcessChunk(energy, dt, stt, plan)
    \/ \E param \in DOMAIN ConfigInputs : \E value \in ConfigInputs[param] :
           SegConfigure(param, value)
    \/ SegInterrupt

SegSpec == SegInit /\ [][SegNext]_vars

\* time passes with no message arriving: time.time() is read only inside
\* process_audio_chunk, and nothing in the service runs between two calls
SegTick(dt) ==
    /\ now + dt <= MaxTime
    /\ now' = now + dt
    /\ UNCHANGED <<current_state, speech_start_time, last_speech_time,
                   accumulated_audio, vad_threshold, silence_timeout,
                   min_speech_duration, max_speech_duration, configures,
                   seg_path, seg_last, seg_stt, seg_span, turn_calls,
                   prev_speech, run_len, run_calls, unfinalized>>
    /\ UNCHANGED <<session_vars, conn_vars>>

\* a client that sends chunks and interrupts, with the default parameters
SegTimedNext ==
    \/ \E energy \in Energies, dt \in Deltas, stt \in {"text", "empty", "raise"},
          plan \in {"question", "complete", "no_session"} :
           SegProcessChunk(energy, dt, stt, plan)
    \/ SegInterrupt
    \/ \E dt \in Deltas : SegTick(dt)

\* the clock advances whatever the client does; whether another chunk
\* arrives is up to the client
SegFairSpec == SegInit /\ [][SegTimedNext]_vars /\ WF_vars(\E dt \in Deltas : SegTick(dt))

\* ============================== ConnectionManager over several sessions
\* The endpoint, the manager and each actor's lifecycle for more than one
\* session id and more than one websocket per id.  An actor here carries its
\* flags, buffer length, queues and error counter; the conversation handlers
\* it runs are the ones a binary frame and the listening messages reach.
conn_rest == <<session_vars, seg_vars>>

\* `session_id in self.active_connections`
HasTransportAlways(s) == TRUE
HasTransport(s) == m_transport[s] # NoId

\* ConnectionManager.disconnect: drop the transport and count it, schedule
\* the actor's cleanup() as a task and drop the actor; never raises
disconnect(s) ==
    /\ m_transport' = [m_transport EXCEPT ![s] = NoId]
    /\ m_stats' = IF HasTransport(s)
                  THEN [m_stats EXCEPT !.active_connections = @ - 1,
                                       !.disconnected_connections = @ + 1]
                  ELSE m_stats
    /\ m_actor' = [m_actor EXCEPT ![s] = NoId]
    /\ cl' = IF m_actor[s] # NoId
             THEN [cl EXCEPT ![m_actor[s]]["disconnect"] = "scheduled"]
             ELSE cl

\* `self.active_connections.get(session_id)`
TransportOfAny(s) ==
    IF \E t \in Sessions : m_transport[t] # NoId
    THEN m_transport[CHOOSE t \in Sessions : m_transport[t] # NoId]
    ELSE NoId
TransportOf(s) == m_transport[s]

\* the except branch of send_message / send_binary
OnSendFailureLogs(s) == UNCHANGED <<m_transport, m_actor, m_stats, cl>>
OnSendFailure(s) == disconnect(s)

\* ConnectionManager.send_message / send_binary: write the frame to the
\* transport registered for the session, disconnect the session when the
\* write fails, do nothing when no transport is registered; never raises
send(s, item, delivered) ==
    /\ last_raised' = FALSE
    /\ IF TransportOf(s) # NoId
       THEN IF delivered
            THEN /\ ws_out' = [ws_out EXCEPT ![TransportOf(s)] = Append(@, item)]
                 /\ UNCHANGED <<m_transport, m_actor, m_stats, cl>>
            ELSE /\ ws_out' = ws_out
                 /\ OnSendFailure(s)
       ELSE UNCHANGED <<ws_out, m_transport, m_actor, m_stats, cl>>

\* a client opens /ws/voice/{session_id}: the endpoint awaits manager.connect
EndpointOpen(w, s) ==
    /\ ep[w].pc = "none"
    /\ \A v \in WsIds : v < w => ep[v].pc # "none"
    /\ ep' = [ep EXCEPT ![w] = [session |-> s, pc |-> "accept"]]
    /\ UNCHANGED <<m_transport, m_actor, m_stats, g_registry, ws_out, act, cl,
                   n_actors, f_pc, f_wait, c_frames, last_raised>>
    /\ UNCHANGED conn_rest

\* whether `await websocket.accept()` returned rather than raised
AcceptIgnored(accepted) == TRUE
AcceptReturned(accepted) == accepted

\* ConnectionManager.connect after the handshake: register the transport,
\* count the connection and build an actor unless the id has one; a failed
\* handshake counts a failure and re-raises, and the endpoint, which awaits
\* connect outside its try/finally, ends without calling disconnect
connect(w, accepted) ==
    /\ ep[w].pc = "accept"
    /\ LET s == ep[w].session
           a == n_actors + 1
       IN IF AcceptReturned(accepted)
          THEN /\ m_transport' = [m_transport EXCEPT ![s] = w]
               /\ m_stats' = [m_stats EXCEPT !.total_connections = @ + 1,
                                             !.active_connections = @ + 1]
               /\ IF m_actor[s] = NoId
                  THEN /\ m_actor' = [m_actor EXCEPT ![s] = a]
                       /\ act' = [act EXCEPT ![a] = NewActor(s)]
                       /\ g_registry' = g_registry \cup {a}
                       /\ n_actors' = a
                  ELSE UNCHANGED <<m_actor, act, g_registry, n_actors>>
               /\ ep' = [ep EXCEPT ![w].pc = "open"]
               /\ last_raised' = FALSE
          ELSE /\ m_stats' = [m_stats EXCEPT !.failed_connections = @ + 1]
               /\ ep' = [ep EXCEPT ![w].pc = "rejected"]
               /\ last_raised' = TRUE
               /\ UNCHANGED <<m_transport, m_actor, act, g_registry, n_actors>>
    /\ UNCHANGED <<ws_out, cl, f_pc, f_wait, c_frames>>
    /\ UNCHANGED conn_rest

\* ConversationActor._send_message on the fields of one actor
ActorOut(r, item) ==
    IF r.is_active THEN [r EXCEPT !.output_queue = Append(@, item)] ELSE r

\* ConversationActor.process_message on the fields of one actor
process_message(r, event) ==
    IF ~r.is_active THEN r
    ELSE CASE event = "start_listening" ->
                ActorOut([r EXCEPT !.is_listening = TRUE, !.audio_buffer = 0],
                         Msg("listening_started"))
           [] event = "stop_listening" ->
                ActorOut([r EXCEPT !.is_listening = FALSE], Msg("listening_stopped"))
           [] event = "ping" -> ActorOut(r, Msg("pong"))
           [] OTHER -> r

\* the endpoint receives a JSON text frame and hands it to the actor that
\* get_actor returns for its session id, if there is one
EndpointMessage(w, event) ==
    /\ ep[w].pc = "open"
    /\ c_frames < MaxConnFrames
    /\ c_frames' = c_frames + 1
    /\ LET a == m_actor[ep[w].session]
       IN act' = IF a # NoId
                 THEN [act EXCEPT ![a] = process_message(@, event)]
                 ELSE act
    /\ UNCHANGED <<m_transport, m_actor, m_stats, g_registry, ep, ws_out, cl,
                   n_actors, f_pc, f_wait, last_raised>>
    /\ UNCHANGED conn_rest

\* the endpoint receives a binary frame: ConversationActor.process_audio_chunk
EndpointChunk(w) ==
    /\ ep[w].pc = "open"
    /\ c_frames < MaxConnFrames
    /\ c_frames' = c_frames + 1
    /\ LET a == m_actor[ep[w].session]
       IN act' = IF a # NoId /\ act[a].is_active
                 THEN [act EXCEPT ![a].audio_queue = Append(@, ConnChunk)]
                 ELSE act
    /\ UNCHANGED <<m_transport, m_actor, m_stats, g_registry, ep, ws_out, cl,
                   n_actors, f_pc, f_wait, last_raised>>
    /\ UNCHANGED conn_rest

\* the endpoint receives text that is not JSON: manager.send_message(error)
EndpointBadJson(w, delivered) ==
    /\ ep[w].pc = "open"
    /\ c_frames < MaxConnFrames
    /\ c_frames' = c_frames + 1
    /\ send(ep[w].session, [session |-> ep[w].session, event |-> "error"], delivered)
    /\ UNCHANGED <<g_registry, ep, act, n_actors, f_pc, f_wait>>
    /\ UNCHANGED conn_rest

\* receive() raises on a closed transport: the loop breaks and the finally
\* clause calls manager.disconnect
EndpointClosed(w) ==
    /\ ep[w].pc = "open"
    /\ ep' = [ep EXCEPT ![w].pc = "closed"]
    /\ disconnect(ep[w].session)
    /\ last_raised' = FALSE
    /\ UNCHANGED <<g_registry, ws_out, act, n_actors, f_pc, f_wait, c_frames>>
    /\ UNCHANGED conn_rest

ActorUnchanged ==
    UNCHANGED <<m_transport, m_actor, m_stats, ep, ws_out, n_actors, f_pc,
                f_wait, c_frames, last_raised>>

\* _audio_processor of actor a takes a chunk: _process_audio_chunk up to the
\* Recognizer call
audio_processor(a) ==
    /\ act[a].is_active
    /\ "audio" \in act[a].running
    /\ ~act[a].cancelled
    /\ act[a].pc = "idle"
    /\ act[a].audio_queue # <<>>
    /\ LET len == act[a].audio_buffer + Head(act[a].audio_queue)
       IN act' = [act EXCEPT ![a].audio_queue = Tail(@),
                             ![a].audio_buffer = len,
                             ![a].pc = IF act[a].is_listening /\ WindowReached(len)
                                       THEN "stt" ELSE "idle"]
    /\ UNCHANGED <<g_registry, cl>>
    /\ ActorUnchanged
    /\ UNCHANGED conn_rest

\* the Recognizer call of actor a returns or raises
speech_to_text(a, ok) ==
    /\ act[a].pc = "stt"
    /\ "audio" \in act[a].running
    /\ ~act[a].cancelled
    /\ LET r == act[a]
           n == r.consecutive_errors + 1
           overlap_size == r.audio_buffer \div 5
       IN act' = [act EXCEPT ![a] =
             IF ok
             THEN ActorOut([r EXCEPT !.consecutive_errors = 0, !.pc = "idle",
                                     !.audio_buffer = IF overlap_size = 0
                                                      THEN r.audio_buffer
                                                      ELSE overlap_size],
                           PartialMsg(FALSE))
             ELSE IF BreakerTrips(n)
                  THEN ActorOut([r EXCEPT !.consecutive_errors = 0, !.pc = "idle",
                                          !.audio_buffer = 0],
                                ErrorMsg("stt_breaker"))
                  ELSE ActorOut([r EXCEPT !.consecutive_errors = n, !.pc = "idle"],
                                ErrorMsg("stt"))]
    /\ UNCHANGED <<g_registry, cl>>
    /\ ActorUnchanged
    /\ UNCHANGED conn_rest

\* the end of cleanup() on the fields of one actor
cleanup_tail(r) ==
    [r EXCEPT !.tasks = {}, !.audio_queue = <<>>, !.output_queue = <<>>,
              !.audio_buffer = 0, !.cleanup_completed = TRUE]

\* a scheduled cleanup() of actor a runs up to its await on the gather of
\* the tracked tasks, or to its end when none is tracked
cleanup(a, c) ==
    /\ cl[a][c] = "scheduled"
    /\ IF act[a].cleanup_completed
       THEN /\ cl' = [cl EXCEPT ![a][c] = "done"]
            /\ UNCHANGED <<act, g_registry>>
       ELSE IF act[a].tasks # {}
            THEN /\ act' = [act EXCEPT ![a].is_active = FALSE,
                                       ![a].cancelled = TRUE]
                 /\ cl' = [cl EXCEPT ![a][c] = "gather"]
                 /\ UNCHANGED g_registry
            ELSE /\ act' = [act EXCEPT ![a] = cleanup_tail([@ EXCEPT !.is_active = FALSE])]
                 /\ g_registry' = g_registry \ {a}
                 /\ cl' = [cl EXCEPT ![a][c] = "done"]
    /\ ActorUnchanged
    /\ UNCHANGED conn_rest

\* a cancelled loop of actor a ends and its done callback untracks it
task_done(a, t) ==
    /\ act[a].cancelled
    /\ t \in act[a].running
    /\ act' = [act EXCEPT ![a].running = @ \ {t}, ![a].tasks = @ \ {t},
                          ![a].pc = IF t = "audio" THEN "idle" ELSE @]
    /\ UNCHANGED <<g_registry, cl>>
    /\ ActorUnchanged
    /\ UNCHANGED conn_rest

\* wait_for(gather(...), 5.0) of a cleanup() of actor a returns, by the
\* gather's result or by TimeoutError, once the actor's loops have ended
cleanup_resume(a, c, timeout) ==
    /\ cl[a][c] = "gather"
    /\ act[a].running = {}
    /\ act' = [act EXCEPT ![a] = cleanup_tail(@)]
    /\ g_registry' = g_registry \ {a}
    /\ cl' = [cl EXCEPT ![a][c] = "done"]
    /\ ActorUnchanged
    /\ UNCHANGED conn_rest

\* ConnectionManager.cleanup_all up to its gather, or to its end when no
\* actor is registered
manager_cleanup_all ==
    LET targets == {m_actor[s] : s \in Sessions} \ {NoId}
    IN IF targets # {}
       THEN /\ cl' = [a \in ActorIds |->
                        IF a \in targets THEN [cl[a] EXCEPT !["manager"] = "scheduled"]
                        ELSE cl[a]]
            /\ f_pc' = "gather_manager"
            /\ f_wait' = targets
            /\ UNCHANGED <<m_transport, m_actor>>
       ELSE /\ m_transport' = [s \in Sessions |-> NoId]
            /\ m_actor' = [s \in Sessions |-> NoId]
            /\ f_pc' = "done"
            /\ f_wait' = {}
            /\ cl' = cl

\* POST /ws/cleanup: cleanup_all_connections up to its gather; with no
\* registered actor it clears the registry and goes on to cleanup_all
force_cleanup_connections ==
    /\ f_pc = "idle"
    /\ IF g_registry # {}
       THEN /\ cl' = [a \in ActorIds |->
                        IF a \in g_registry THEN [cl[a] EXCEPT !["force"] = "scheduled"]
                        ELSE cl[a]]
            /\ f_pc' = "gather_registry"
            /\ f_wait' = g_registry
            /\ UNCHANGED <<g_registry, m_transport, m_actor>>
       ELSE /\ g_registry' = {}
            /\ manager_cleanup_all
    /\ UNCHANGED <<m_stats, ep, ws_out, act, n_actors, c_frames, last_raised>>
    /\ UNCHANGED conn_rest

\* the gather of cleanup_all_connections returns: the registry is cleared
\* and manager.cleanup_all runs up to its gather
force_registry_cleared ==
    /\ f_pc = "gather_registry"
    /\ \A a \in f_wait : cl[a]["force"] = "done"
    /\ g_registry' = {}
    /\ manager_cleanup_all
    /\ UNCHANGED <<m_stats, ep, ws_out, act, n_actors, c_frames, last_raised>>
    /\ UNCHANGED conn_rest

\* the gather of manager.cleanup_all returns: both maps are cleared
force_maps_cleared ==
    /\ f_pc = "gather_manager"
    /\ \A a \in f_wait : cl[a]["manager"] = "done"
    /\ m_transport' = [s \in Sessions |-> NoId]
    /\ m_actor' = [s \in Sessions |-> NoId]
    /\ f_pc' = "done"
    /\ f_wait' = {}
    /\ UNCHANGED <<m_stats, g_registry, ep, ws_out, act, cl, n_actors, c_frames,
                   last_raised>>
    /\ UNCHANGED conn_rest

ConnNext ==
    \/ \E w \in WsIds, s \in Sessions : EndpointOpen(w, s)
    \/ \E w \in WsIds, accepted \in BOOLEAN : connect(w, accepted)
    \/ \E w \in WsIds, event \in {"start_listening", "stop_listening", "ping"} :
           EndpointMessage(w, event)
    \/ \E w \in WsIds : EndpointChunk(w)
    \/ \E w \in WsIds, delivered \in BOOLEAN : EndpointBadJson(w, delivered)
    \/ \E w \in WsIds : EndpointClosed(w)
    \/ \E a \in ActorIds : audio_processor(a)
    \/ \E a \in ActorIds, ok \in BOOLEAN : speech_to_text(a, ok)
    \/ \E a \in ActorIds, c \in CleanupIds : cleanup(a, c)
    \/ \E a \in ActorIds, t \in TaskIds : task_done(a, t)
    \/ \E a \in ActorIds, c \in CleanupIds, timeout \in BOOLEAN :
           cleanup_resume(a, c, timeout)

\* the same with POST /ws/cleanup, once
ConnForceNext ==
    \/ ConnNext
    \/ force_cleanup_connections
    \/ force_registry_cleared
    \/ force_maps_cleared

ConnSpec == Init /\ [][ConnNext]_vars
ConnForceSpec == Init /\ [][ConnForceNext]_vars

\* ================================================================== claims

\* C1: every item the outbound loop takes from the output queue is handed to
\* the ConnectionManager send primitive for the session, once and in the
\* order of the queue: the step that takes the head appends it to the frames
\* written to the transport and leaves the rest of the queue.
C1_OutputForwardedInOrder ==
    [][OutputProcessorStep =>
          /\ ws_frames' = Append(ws_frames, Head(output_queue))
          /\ output_queue' = Tail(output_queue)]_vars

\* C2: processing stop_listening while the actor listens with a non-empty
\* audio buffer starts one final Recognizer call on the buffered audio
\* (is_last = TRUE) before listening_stopped is emitted.
C2_StopListeningFinalizes ==
    [][(/\ StopListening
        /\ SessionId \in conversation_actors /\ is_active
        /\ is_listening /\ audio_buffer # <<>>)
       => (pc'["rx"] = "stt" /\ ctx'["rx"].is_last)]_vars

\* C3: the audio handed to the Recognizer is the concatenation of the chunks
\* enqueued while listening: a chunk enqueued while the actor listened never
\* leaves the audio buffer without having been part of a Recognizer call.
C3_ListenedAudioReachesRecognizer ==
    [][\A i \in DOMAIN audio_buffer :
          (audio_buffer[i].heard /\ ~audio_buffer[i].sent)
          => \E j \in DOMAIN audio_buffer' : audio_buffer'[j].id = audio_buffer[i].id]_vars

\* C4, as stated: every contiguous speech run of at least min_speech_duration
\* causes exactly one finalize with one Recognizer call, never none (no such
\* run is followed by a new run without one) and never more than one.
C4_OneFinalizePerRun == ~unfinalized /\ run_calls <= 1

\* C4, amended: every speech turn (from the speech chunk that leaves SILENCE
\* to the next return to SILENCE, over all the speech runs in between) causes
\* at most one Recognizer call: exactly one when the turn ends in a finalize,
\* after which the segmenter is back in SILENCE, and none when it is
\* discarded or still open.
C4_OneFinalizePerTurn ==
    /\ turn_calls <= 1
    /\ seg_last = "finalize" => (turn_calls = 1 /\ current_state = "silence")
    /\ seg_last = "discard" => (turn_calls = 0 /\ current_state = "silence")
    /\ current_state = "speech" => turn_calls = 0

\* a turn of two speech runs, the first of at least min_speech_duration, closed
\* by one finalize
C4_Witness ==
    /\ seg_last = "finalize" /\ turn_calls = 1
    /\ unfinalized /\ run_calls = 1

\* C5: with the default silence_timeout and min_speech_duration, a turn whose
\* speech (first to last speech chunk) is shorter than min_speech_duration
\* is closed by a discard, without a Recognizer call.
C5_ShortSpeechDiscarded ==
    (/\ silence_timeout = DefaultSilenceTimeout
     /\ min_speech_duration = DefaultMinSpeech
     /\ seg_last \in {"finalize", "discard"}
     /\ seg_span < min_speech_duration)
    => (seg_last = "discard" /\ turn_calls = 0)

\* C6: the Recognizer failure that makes max_consecutive_errors failures in a
\* row leaves the audio buffer empty and consecutive_errors at 0.
C6_BreakerClearsAndResets ==
    [][(streak = max_consecutive_errors - 1 /\ streak' = max_consecutive_errors)
       => (audio_buffer' = <<>> /\ consecutive_errors' = 0)]_vars

C6_Witness ==
    /\ streak = max_consecutive_errors
    /\ audio_buffer = <<>> /\ consecutive_errors = 0
    /\ is_listening

\* C7: a Recognizer failure on an active actor appends exactly one error
\* event to the output queue, and when it leaves consecutive_errors below
\* max_consecutive_errors (the breaker did not trip) the audio buffer is
\* what it was.
C7_OneErrorPerFailure ==
    [][\A p \in Procs :
          (RecognizerReturns(p, "fail") /\ is_active)
          => /\ \E cause \in {"stt", "stt_breaker"} :
                   output_queue' = Append(output_queue, ErrorMsg(cause))
             /\ consecutive_errors' # 0 => audio_buffer' = audio_buffer]_vars

\* five failures in a row and their five error events, the buffer kept up to
\* the fifth
C7_Witness ==
    /\ streak = max_consecutive_errors
    /\ Cardinality({i \in DOMAIN output_queue :
                       output_queue[i].event = "error"}) = max_consecutive_errors
    /\ audio_buffer = <<>>

\* C8: a failure of the Recognizer, the planner or the Synthesizer leaves the
\* actor active, its inbound task running and back at audio_queue.get(), and
\* the session in the ConnectionManager maps and in the registry.
C8_FailuresKeepActorRunning ==
    [][\A p \in Procs :
          (\/ RecognizerReturns(p, "fail")
           \/ PlannerReturns(p, "no_session")
           \/ PlannerReturns(p, "llm_error")
           \/ SynthesizerStep(p, "raise"))
          => /\ is_active' /\ is_active
             /\ task_state'["audio"] = "running"
             /\ pc'[p] = "idle"
             /\ SessionId \in conversation_actors'
             /\ SessionId \in active_connections'
             /\ registered']_vars

\* the breaker has tripped; the actor is active and registered, its inbound
\* task back at audio_queue.get()
C8_Witness ==
    /\ streak >= max_consecutive_errors
    /\ output_queue[Len(output_queue)] = ErrorMsg("stt_breaker")
    /\ is_active /\ task_state["audio"] = "running" /\ pc["audio"] = "idle"
    /\ SessionId \in conversation_actors /\ SessionId \in active_connections
    /\ registered

\* the state a completed cleanup() leaves
EndState ==
    /\ ~is_active
    /\ audio_queue = <<>> /\ output_queue = <<>>
    /\ tasks = {}
    /\ audio_buffer = <<>> /\ conversation_history = <<>>
    /\ ~registered

\* C9: a cleanup() called after a cleanup() has completed finds the end state
\* (inactive, both queues empty, no tracked task, empty buffer and history,
\* out of the registry), returns, and leaves the actor as it was.
C9_CleanupIdempotent ==
    [][\A c \in CleanupIds :
          (CleanupStart(c) /\ cleanup_completed)
          => /\ EndState /\ EndState'
             /\ UNCHANGED <<actor_vars, registered, task_state>>
             /\ cleanup_pc'[c] = "done"]_vars

\* the forced cleanup, then the manager's cleanup_all, one after the other
C9_Witness ==
    /\ ~overlap
    /\ cleanup_pc["force"] = "done" /\ cleanup_pc["manager"] = "done"
    /\ EndState

\* C10: when cleanup() calls have run concurrently (one started while another
\* was suspended in its gather), as soon as any of them has returned the
\* actor is in the end state of a single cleanup.
C10_ConcurrentCleanupEndState ==
    (overlap /\ \E c \in CleanupIds : cleanup_pc[c] = "done")
    => (EndState /\ cleanup_completed)

\* the disconnect path's and the forced cleanup's calls overlapped and both
\* returned
C10_Witness ==
    /\ overlap
    /\ cleanup_pc["disconnect"] = "done" /\ cleanup_pc["force"] = "done"
    /\ EndState

\* every tracked loop task has ended
TasksEnded == \A t \in TaskIds : task_state[t] = "done"

C13_ProcessAudioChunkReturns ==
    [][\A c \in ChunkInputs :
          ProcessAudioChunk(c[1], c[2])
          => /\ pc'["rx"] = "idle" /\ rx_open'
             /\ ~is_active => audio_queue' = audio_queue
             /\ (is_active /\ SessionId \in conversation_actors)
                => /\ Len(audio_queue') = Len(audio_queue) + 1
                   /\ SubSeq(audio_queue', 1, Len(audio_queue)) = audio_queue
                   /\ audio_queue'[Len(audio_queue')].size = c[1]]_vars

\* two chunks were accepted although the inbound task took none of them
C13_Witness ==
    /\ Len(audio_queue) = 2 /\ frame_no = 2
    /\ pc["rx"] = "idle" /\ rx_open /\ is_active

\* C14: the inbound audio queue has a finite capacity, and the number of
\* chunks waiting in it never exceeds that capacity.
C14_InboundQueueBounded ==
    /\ audio_queue_maxsize > 0
    /\ Len(audio_queue) <= audio_queue_maxsize

\* the speech framing events and the audio items of the output queue
IsSpeechItem(m) == m.event \in {"speech_start", "audio", "speech_end"}
SpeechItems == SelectSeq(output_queue, IsSpeechItem)

LiveActors(s) ==
    {a \in ActorIds : /\ act[a].session = s
                      /\ act[a].is_active
                      /\ act[a].running = TaskIds
                      /\ ~act[a].cancelled}

\* C12: in every reachable state, whatever the interleaving of connect,
\* disconnect, delivery failure and forced cleanup on a session id, at most
\* one ConversationActor of that id is active with running loops.
C12_OneLiveActorPerSession ==
    \A s \in Sessions : Cardinality(LiveActors(s)) <= 1

\* C15: when the transport handshake fails during connect, the failure
\* reaches the caller, no actor is built, neither registry map gets an entry,
\* the total and active counters keep their values and only the
\* failed-connections counter goes up, by one.
C15_FailedHandshake ==
    [][\A w \in WsIds : connect(w, FALSE) =>
            /\ last_raised'
            /\ ep'[w].pc = "rejected"
            /\ n_actors' = n_actors
            /\ act' = act
            /\ g_registry' = g_registry
            /\ m_transport' = m_transport
            /\ m_actor' = m_actor
            /\ m_stats' = [m_stats EXCEPT !.failed_connections = @ + 1]]_vars
C15_Witness ==
    /\ ep[1].pc = "open"
    /\ ep[2].pc = "rejected"
    /\ ep[2].session = ep[1].session
    /\ last_raised
    /\ m_stats.failed_connections = 1
    /\ m_transport[ep[1].session] = 1
    /\ m_actor[ep[1].session] = 1

\* C16: send, the one primitive behind send_message and send_binary, never
\* raises to its caller; when the write on the registered transport fails
\* the session is disconnected (both registry entries removed, the actor's
\* cleanup scheduled), and when no transport is registered for the session
\* the call changes no state.
C16_SendNeverRaises ==
    [][\A w \in WsIds, delivered \in BOOLEAN :
          EndpointBadJson(w, delivered) =>
            LET s == ep[w].session
            IN /\ ~last_raised'
               /\ ep'[w].pc = "open"
               /\ (m_transport[s] # NoId /\ ~delivered) =>
                     /\ m_transport'[s] = NoId
                     /\ m_actor'[s] = NoId
                     /\ m_actor[s] # NoId =>
                           cl'[m_actor[s]]["disconnect"] = "scheduled"
               /\ m_transport[s] = NoId =>
                     UNCHANGED <<m_transport, m_actor, m_stats, g_registry,
                                 ws_out, act, cl, n_actors>>]_vars
C16_Witness ==
    /\ \A w \in WsIds : ep[w].pc # "closed"
    /\ ep[1].pc = "open"
    /\ c_frames = 1
    /\ ws_out[1] = <<>>
    /\ m_transport[ep[1].session] = NoId
    /\ m_actor[ep[1].session] = NoId
    /\ cl[1]["disconnect"] = "scheduled"
    /\ m_stats.disconnected_connections = 1
    /\ ~last_raised

\* C17: disconnect is idempotent: called for a session id that has no entry
\* in the registry maps (already disconnected, or never connected) it leaves
\* both maps and every counter as they are, schedules no cleanup, touches no
\* actor and does not raise.
C17_DisconnectIdempotent ==
    [][\A w \in WsIds :
          (/\ EndpointClosed(w)
           /\ m_transport[ep[w].session] = NoId
           /\ m_actor[ep[w].session] = NoId) =>
              /\ UNCHANGED <<m_transport, m_actor, m_stats, cl, act, g_registry>>
              /\ ~last_raised']_vars
C17_Witness ==
    /\ ep[1].pc = "closed"
    /\ ep[2].pc = "none"
    /\ c_frames = 1
    /\ ws_out[1] = <<>>
    /\ act[1].is_active
    /\ ~act[1].is_listening
    /\ act[1].audio_queue = <<>>
    /\ act[1].output_queue = <<>>
    /\ cl[1]["disconnect"] = "scheduled"
    /\ m_stats = [total_connections |-> 1, active_connections |-> 0,
                  disconnected_connections |-> 1, failed_connections |-> 0]

\* a step of the endpoint serving websocket w, or of actor a
EndpointStep(w) ==
    \/ \E accepted \in BOOLEAN : connect(w, accepted)
    \/ \E event \in {"start_listening", "stop_listening", "ping"} :
           EndpointMessage(w, event)
    \/ EndpointChunk(w)
    \/ \E delivered \in BOOLEAN : EndpointBadJson(w, delivered)
    \/ EndpointClosed(w)
ActorStep(a) ==
    \/ audio_processor(a)
    \/ \E ok \in BOOLEAN : speech_to_text(a, ok)
    \/ \E c \in CleanupIds : cleanup(a, c)
    \/ \E t \in TaskIds : task_done(a, t)
    \/ \E c \in CleanupIds, timeout \in BOOLEAN : cleanup_resume(a, c, timeout)
\* the actors built for a session other than s, and the websockets opened
\* for a session other than s
OtherActors(s) == {b \in ActorIds : act[b].session \notin {s, "none"}}
OtherSockets(s) == {v \in WsIds : ep[v].session \notin {s, "none"}}

\* C19: sessions are isolated: a frame, a control event, a chunk, a
\* Recognizer failure, a disconnect or a cleanup of one session changes
\* neither the fields (flags, buffer, queues, error counter, tasks) nor the
\* scheduled cleanups of an actor of another session and writes nothing to a
\* websocket of another session, and every frame written to a websocket was
\* sent for that websocket's own session.
C19_SessionsIsolated ==
    /\ [](\A w \in WsIds : \A i \in 1..Len(ws_out[w]) :
             ws_out[w][i].session = ep[w].session)
    /\ [][\A w \in WsIds : EndpointStep(w) =>
             /\ \A b \in OtherActors(ep[w].session) :
                    act'[b] = act[b] /\ cl'[b] = cl[b]
             /\ \A v \in OtherSockets(ep[w].session) :
                    ws_out'[v] = ws_out[v]]_vars
    /\ [][\A a \in ActorIds : ActorStep(a) =>
             /\ \A b \in OtherActors(act[a].session) :
                    act'[b] = act[b] /\ cl'[b] = cl[b]
             /\ \A v \in OtherSockets(act[a].session) :
                    ws_out'[v] = ws_out[v]]_vars
C19_Witness ==
    /\ act[1].session = "s1"
    /\ act[1].audio_buffer = ConnChunk
    /\ act[1].audio_queue = <<>>
    /\ act[2] = NewActor("s2")
    /\ ws_out[m_transport["s2"]] = <<[session |-> "s2", event |-> "error"]>>
    /\ ws_out[m_transport["s1"]] = <<>>

\* C20: an actor is built for a connecting transport only after the session
\* was found in the SessionStore: every actor that exists, with its loops,
\* belongs to a session id the store holds.
C20_ActorOnlyForStoredSession ==
    \A a \in ActorIds :
        act[a].session # "none" => act[a].session \in StoredSessions

\* C21: whatever configure calls were made, with arguments below or above
\* the ranges, the threshold is within [0.001, 1.0], the silence timeout
\* within [0.5, 10] s, the minimum speech duration within [0.1, 5] s and the
\* maximum within [5, 60] s, hence minimum <= maximum; a configure call
\* leaves every parameter it was not given as it was.
C21_ConfigureClamps ==
    /\ [](/\ vad_threshold >= 1 /\ vad_threshold <= 1000
          /\ silence_timeout >= 5 /\ silence_timeout <= 100
          /\ min_speech_duration >= 1 /\ min_speech_duration <= 50
          /\ max_speech_duration >= 50 /\ max_speech_duration <= 600
          /\ min_speech_duration <= max_speech_duration)
    /\ [][\A param \in DOMAIN ConfigInputs : \A value \in ConfigInputs[param] :
            SegConfigure(param, value) =>
              /\ param # "vad_threshold" => vad_threshold' = vad_threshold
              /\ param # "silence_timeout" => silence_timeout' = silence_timeout
              /\ param # "min_speech_duration" =>
                     min_speech_duration' = min_speech_duration
              /\ param # "max_speech_duration" =>
                     max_speech_duration' = max_speech_duration]_vars
C21_Witness ==
    /\ configures = 2
    /\ min_speech_duration = 50
    /\ max_speech_duration = 50
    /\ vad_threshold = DefaultVadThreshold
    /\ silence_timeout = DefaultSilenceTimeout

\* the rows of the transition table that change the state, with the branch
\* of process_audio_chunk that is their trigger
TableRow(from, to, trigger) ==
    \/ from = "silence" /\ to = "speech" /\ trigger = "speech_start"
    \/ from = "speech" /\ to = "processing" /\ trigger = "finalize"
    \/ from = "speech" /\ to = "silence" /\ trigger = "discard"
    \/ from = "processing" /\ to = "silence" /\ trigger = "finalize"
\* the states the segmenter goes through during one step, from the state
\* before it
StatesThrough == <<current_state>> \o seg_path'

\* C26: every change of the VoiceActivityState is a row of the transition
\* table under that row's trigger: Silence->Speech on a speech chunk,
\* Speech->Processing on finalize, Speech->Silence on discard,
\* Processing->Silence at the end of finalize; chunks, configure, interrupt
\* and synthesis cause no other change.
C26_OnlyTableTransitions ==
    [][/\ ((\E energy \in Energies, dt \in Deltas,
               stt \in {"text", "empty", "raise"},
               plan \in {"question", "complete", "no_session"} :
                 SegProcessChunk(energy, dt, stt, plan)) \/ SegInterrupt) =>
             \A i \in 1..(Len(StatesThrough) - 1) :
                 TableRow(StatesThrough[i], StatesThrough[i + 1], seg_last')
       /\ (\E param \in DOMAIN ConfigInputs : \E value \in ConfigInputs[param] :
               SegConfigure(param, value)) => current_state' = current_state]_vars

\* C27: every finalize attempt ends with the segmenter in Silence, its
\* accumulated buffer empty and its start and last-speech times cleared,
\* whether the Recognizer returned text, returned nothing or raised; the
\* segmenter is never left in Processing.
C27_FinalizeReturnsToSilence ==
    /\ [](current_state # "processing")
    \* (only process_audio_chunk moves the clock)
    /\ [][(now' # now /\ seg_last' = "finalize") =>
                /\ seg_path'[1] = "processing" => seg_path'[2] = "silence"
                /\ current_state' = "silence"
                /\ accumulated_audio' = 0
                /\ speech_start_time' = None
                /\ last_speech_time' = None]_vars
C27_Witness ==
    /\ seg_last = "finalize"
    /\ seg_stt = "raise"
    /\ seg_path = <<"processing", "silence">>
    /\ current_state = "silence"
    /\ accumulated_audio = 0

\* a turn in Speech whose silence timeout has elapsed since the last speech
\* chunk, or that has reached the maximum speech duration
TurnOverdue ==
    /\ current_state = "speech"
    /\ \/ now - last_speech_time > silence_timeout
       \/ now - speech_start_time >= max_speech_duration

\* C29: every turn that enters Speech leaves it: once the silence timeout
\* has elapsed since the last speech chunk, or the maximum speech duration
\* is reached, the segmenter finalizes or discards the turn and is back in
\* Silence, as time goes on and whether or not another chunk arrives.
C29_SpeechTurnEnds == TurnOverdue ~> (current_state = "silence")

\* C22: audio_buffer grows only while is_listening: when the inbound loop
\* processes a chunk while the actor is not listening, the buffer is no
\* longer afterwards than before.
C22_BufferGrowsOnlyListening ==
    [][(AudioProcessorStep /\ ~is_listening) =>
          BufLen(audio_buffer') <= BufLen(audio_buffer)]_vars

\* C23: frames take effect in the order received: the inbound loop evaluates
\* each chunk under the listening state that held when the chunk was
\* received, so a start_listening or stop_listening frame received after a
\* chunk never takes effect before that chunk.
C23_FramesInOrder ==
    [][AudioProcessorStep => Head(audio_queue).heard = is_listening]_vars

\* C24: a teardown caused by one transport removes only that transport's
\* registration: when the receive loop of websocket w ends while a newer
\* websocket is registered for the same session id, the newer websocket's
\* registry entry and the session's actor stay as they are and no cleanup of
\* that actor is scheduled.
C24_TeardownOwnTransportOnly ==
    [][\A w \in WsIds :
          (/\ EndpointClosed(w)
           /\ m_transport[ep[w].session] \notin {NoId, w}) =>
              /\ m_transport'[ep[w].session] = m_transport[ep[w].session]
              /\ m_actor'[ep[w].session] = m_actor[ep[w].session]
              /\ cl' = cl]_vars

\* an actor that was built and has been cleaned up: inactive, every loop
\* ended or cancelled, both queues empty
Drained(r) ==
    /\ ~r.is_active
    /\ r.running = {} \/ r.cancelled
    /\ r.audio_queue = <<>>
    /\ r.output_queue = <<>>

\* C25: when the forced cleanup completes, every actor built before or
\* during it is cleaned up, both registry maps and the actor registry are
\* empty, and no live actor is left outside them, whatever connects and
\* disconnects ran meanwhile.
C25_ForceCleanupDrainsAll ==
    [][(f_pc # "done" /\ f_pc' = "done") =>
          /\ \A a \in ActorIds : act'[a].session # "none" => Drained(act'[a])
          /\ g_registry' = {}
          /\ \A s \in Sessions : m_transport'[s] = NoId /\ m_actor'[s] = NoId]_vars

\* C28: only the outbound loop writes to the session's transport: every
\* step that writes a frame to the transport is a step of the outbound
\* loop, never one of the receive path or of a control-event handler.
C28_SingleWriter ==
    [][ws_frames' # ws_frames => OutputProcessorStep]_vars

\* what a fault inside a loop must leave alone: the ConnectionManager's maps
\* and the registry, the receive path, the actor's activity and its cleanups
FaultContained ==
    /\ UNCHANGED <<manager_vars, rx_open, is_active, cleanup_pc, ws_frames>>
    /\ pc'["rx"] = pc["rx"]

C31_CleanupProceedsAfterGrace ==
    \A c \in CleanupIds :
        cleanup_pc[c] = "gather" => ENABLED CleanupResume(c, TRUE)

\* the tasks created by or for the actor that have not finished: its two
\* loops, and the cleanup() tasks created by disconnect, by the forced
\* cleanup and by cleanup_all
UnfinishedTasks ==
    {t \in TaskIds : task_state[t] # "done"} \cup
    {c \in CleanupIds : cleanup_pc[c] \in {"scheduled", "gather"}}

\* C32: every task created by or for the actor is in the actor's tracked
\* task set from its creation until it finishes: no task of the actor is
\* unfinished while absent from the set.
C32_EveryTaskTracked == UnfinishedTasks \subseteq tasks

\* what a step appended to the output queue
Emitted == SubSeq(output_queue', Len(output_queue) + 1, Len(output_queue'))

\* C33: when the planner returns an empty reply for a finalized utterance the
\* actor emits an interview-completion event and no question text for that
\* turn; when it returns text, the text event is emitted before anything of
\* its synthesized speech.
C33_EmptyReplyCompletes ==
    [][\A p \in Procs :
          /\ (PlannerReturns(p, "empty") /\ is_active)
             => /\ \E i \in DOMAIN Emitted : Emitted[i].event = "interview_completed"
                /\ \A i \in DOMAIN Emitted : Emitted[i].event # "assistant_text"
          /\ (PlannerReturns(p, "reply") /\ is_active)
             => Emitted = <<AssistantText("reply"), Msg("speech_start")>>]_vars

\* the inbound loop is at audio_queue.get()
InboundWaiting == AudioRuns /\ pc["audio"] = "idle"

\* C34: consecutive_errors counts the Recognizer failures since the last
\* success or breaker reset: it starts at 0, only the return of a Recognizer
\* call changes it, a success sets it to 0, a failure adds one or, at the
\* breaker threshold, resets it to 0; and it is within
\* 0..max_consecutive_errors - 1 whenever the inbound loop waits for its next
\* chunk.
C34_CountsRecognizerFailures ==
    /\ [](InboundWaiting =>
             (consecutive_errors >= 0 /\ consecutive_errors < max_consecutive_errors))
    /\ [][/\ consecutive_errors' # consecutive_errors
             => \E p \in Procs, outcome \in Texts \cup {"fail"} :
                   RecognizerReturns(p, outcome)
          /\ \A p \in Procs :
                /\ (\E outcome \in Texts : RecognizerReturns(p, outcome))
                   => consecutive_errors' = 0
                /\ RecognizerReturns(p, "fail")
                   => consecutive_errors' =
                        IF consecutive_errors + 1 >= max_consecutive_errors
                        THEN 0 ELSE consecutive_errors + 1]_vars

\* C35: a chunk processed while the segmenter is in Speech, at a time at
\* which the turn has lasted max_speech_duration or more, force-finalizes
\* the turn: the call takes the finalize branch and the segmenter is not in
\* Speech after it.
C35_MaxDurationForcesFinalize ==
    [][(/\ current_state = "speech"
        /\ now' # now
        /\ now' - speech_start_time >= max_speech_duration)
       => (seg_last' = "finalize" /\ current_state' # "speech")]_vars

\* C36: conversation_history is bounded: after any number of finalized turns
\* it holds at most the HistoryWindow most recent entries, in order, and the
\* history the planner is given is the whole of it.
C36_HistoryBounded ==
    /\ Len(conversation_history) <= HistoryWindow
    /\ PlannerMessages = conversation_history

\* C37: a successful Recognizer call that is not final leaves in the audio
\* buffer exactly the trailing floor(n/5) bytes of the n bytes it was given
\* and sets current_transcript to the text returned; when the handling of a
\* successful final call is over, the buffer is empty and current_transcript
\* is the empty string.
C37_OverlapRetained ==
    [][\A p \in Procs :
          /\ \A text \in Texts :
                (RecognizerReturns(p, text) /\ ~ctx[p].is_last)
                => /\ audio_buffer' =
                        LastBytes(ctx[p].window, BufLen(ctx[p].window) \div 5)
                   /\ current_transcript' = text
          /\ (ctx[p].is_last /\ pc[p] \in {"plan", "synth"} /\ pc'[p] = "idle")
             => (audio_buffer' = <<>> /\ current_transcript' = "")]_vars

\* C38: every speech_start is followed by a speech_end for the same
\* response: the step in which _generate_speech leaves the Synthesizer
\* stream of a response whose speech_start was emitted (the stream ended or
\* raised), after which nothing more is emitted for that response, appends
\* speech_end to the output queue.
C38_SpeechStartGetsEnd ==
    [][\A p \in Procs :
          (pc[p] = "synth" /\ pc'[p] # "synth" /\ is_active)
          => \E i \in DOMAIN Emitted : Emitted[i] = Msg("speech_end")]_vars

\* get_stats: len(self.active_connections), the transports the manager holds
current_active == Cardinality({s \in Sessions : m_transport[s] # NoId})

\* C39: in every reachable state the counter _stats["active_connections"]
\* equals the number of transports held in the manager's connection map.
C39_ActiveCounterMatchesMap == m_stats.active_connections = current_active

\* a buffer of whole PCM16 samples: it starts on a sample boundary of its
\* first chunk (every chunk being a whole number of samples, that is a
\* sample boundary of the stream) and has an even number of bytes
SampleAligned(buf) ==
    /\ BufLen(buf) % BytesPerSample = 0
    /\ buf # <<>> => buf[1].lo % BytesPerSample = 0

\* C40: every inbound chunk having an even number of bytes, the audio buffer
\* always has an even length, and every buffer handed to the Recognizer
\* starts on a sample boundary, the overlap kept after a non-final window
\* included.
C40_BufferSampleAligned ==
    /\ \A c \in ChunkInputs : c[1] % BytesPerSample = 0
    /\ SampleAligned(audio_buffer)
    /\ \A p \in Procs : pc[p] = "stt" => SampleAligned(ctx[p].window)


====
